---- MODULE Spec2Model ----
(***************************************************************************)
(* Model of libyul/backends/evm/StackHelpers.h: the stack shuffler         *)
(* (Shuffler::shuffle / shuffleStep), its ShuffleOperations adapter and    *)
(* createStackLayout.  Offsets are 0-based as in the source; a Stack is a  *)
(* TLA+ sequence whose element 1 is the bottom (offset 0).                 *)
(***************************************************************************)
EXTENDS Integers, Sequences, FiniteSets, TLC

\* ---------------------------------------------------------------- bounds
\* Longest current / target stack drawn as an input.
MaxLen == 3

\* ------------------------------------------------------------- constants
\* The iteration limit of Shuffler::shuffle.
IterationLimit == 1000
\* The largest iteration limit tried when the limit is taken as a parameter.
MaxCap == 3

\* ----------------------------------------------------------------- slots
\* StackSlot alternatives that occur in the inputs: three VariableSlots,
\* and the JunkSlot.  Only JunkSlot is told apart by the code
\* (std::holds_alternative<JunkSlot>); all others are compared with ==.
Junk == "JUNK"
Variables == {"a", "b", "c"}
StackSlot == Variables \cup {Junk}

\* Stacks of at most n slots.
StacksUpTo(n) == UNION {[1..k -> StackSlot] : k \in 0..n}

\* The code only compares slots for equality and asks whether a slot is the
\* JunkSlot, so a pair of stacks behaves as every renaming of its variables
\* does.  One pair of each such class is drawn: the one in which, reading
\* current then target from the bottom, the variables first occur in the
\* order a, b, c.
VariableOrder == <<"a", "b", "c">>
FirstOccurrencesInOrder(word) ==
    \A i \in 1..Len(word) : \A k \in 2..Len(VariableOrder) :
        word[i] = VariableOrder[k] => \E j \in 1..(i - 1) : word[j] = VariableOrder[k - 1]

\* Stack::at(offset) with a 0-based offset.
At(stack, offset) == stack[offset + 1]

\* The primitives handed to the caller's hooks.
NoSlot == "-"
SwapPrim(depth) == [op |-> "swap", depth |-> depth, slot |-> NoSlot]
PopPrim == [op |-> "pop", depth |-> 0, slot |-> NoSlot]
PushOrDupPrim(slot) == [op |-> "pushOrDup", depth |-> 0, slot |-> slot]

\* Smallest element of a non-empty set of offsets (first hit of an iota scan).
First(S) == CHOOSE x \in S : \A y \in S : x <= y

\* ------------------------------------------------- ShuffleOperations
\* Number of occurrences of slot in stack.
Occurrences(stack, slot) == Cardinality({i \in 1..Len(stack) : stack[i] = slot})

\* The slot a target position counts for while the table is built: a junk
\* target position below the current size counts for the current slot there.
CountedSlot(currentStack, targetStack, i) ==
    IF targetStack[i] = Junk /\ i <= Len(currentStack)
    THEN currentStack[i]
    ELSE targetStack[i]

\* std::map<StackSlot, int> multiplicity as built by the constructor; its
\* DOMAIN is the set of keys operator[] created.
Multiplicity(currentStack, targetStack) ==
    LET keys == {currentStack[i] : i \in 1..Len(currentStack)}
                \cup {CountedSlot(currentStack, targetStack, i) : i \in 1..Len(targetStack)}
    IN [k \in keys |->
          Cardinality({i \in 1..Len(targetStack) : CountedSlot(currentStack, targetStack, i) = k})
          - Occurrences(currentStack, k)]

\* A ShuffleOperations instance.
ShuffleOperations(currentStack, targetStack) ==
    [currentStack |-> currentStack,
     targetStack |-> targetStack,
     multiplicity |-> Multiplicity(currentStack, targetStack)]

sourceSize(ops) == Len(ops.currentStack)
targetSize(ops) == Len(ops.targetStack)

\* isCompatible without the junk alternative.
isCompatible_noJunk(ops, source, target) ==
    /\ source < Len(ops.currentStack)
    /\ target < Len(ops.targetStack)
    /\ At(ops.currentStack, source) = At(ops.targetStack, target)

isCompatible(ops, source, target) ==
    /\ source < Len(ops.currentStack)
    /\ target < Len(ops.targetStack)
    /\ \/ At(ops.targetStack, target) = Junk
       \/ At(ops.currentStack, source) = At(ops.targetStack, target)

sourceIsSame(ops, lhs, rhs) == At(ops.currentStack, lhs) = At(ops.currentStack, rhs)

targetIsArbitrary(ops, offset) ==
    offset < Len(ops.targetStack) /\ At(ops.targetStack, offset) = Junk

\* sourceMultiplicity / targetMultiplicity throw std::out_of_range when the
\* offset is no index of the stack or the slot is no key of the table.  An
\* offset below 0 stands for a size_t that wrapped around.
sourceMultiplicityThrows(ops, offset) ==
    \/ offset < 0 \/ offset >= Len(ops.currentStack)
    \/ At(ops.currentStack, offset) \notin DOMAIN ops.multiplicity
sourceMultiplicity(ops, offset) == ops.multiplicity[At(ops.currentStack, offset)]

targetMultiplicityThrows(ops, offset) ==
    \/ offset >= Len(ops.targetStack)
    \/ At(ops.targetStack, offset) \notin DOMAIN ops.multiplicity
targetMultiplicity(ops, offset) == ops.multiplicity[At(ops.targetStack, offset)]

\* swap whose hook is told the depth counted from 1 at the top.
swap_hookCountsTop(ops, i) ==
    LET s == ops.currentStack
        n == Len(s)
    IN [hooks |-> <<SwapPrim(i + 1)>>,
        stack |-> [k \in 1..n |-> IF k = n THEN s[n - i] ELSE IF k = n - i THEN s[n] ELSE s[k]]]

\* swap(_i): the hook, then std::swap of the slot _i below the top with the top.
swap(ops, i) ==
    LET s == ops.currentStack
        n == Len(s)
    IN [hooks |-> <<SwapPrim(i)>>,
        stack |-> [k \in 1..n |-> IF k = n THEN s[n - i] ELSE IF k = n - i THEN s[n] ELSE s[k]]]

\* pop(): the hook, then pop_back.
pop(ops) ==
    [hooks |-> <<PopPrim>>,
     stack |-> SubSeq(ops.currentStack, 1, Len(ops.currentStack) - 1)]

\* pushOrDupTarget(_offset): the hook with target[_offset], then push_back.
pushOrDupTarget(ops, offset) ==
    [hooks |-> <<PushOrDupPrim(At(ops.targetStack, offset))>>,
     stack |-> Append(ops.currentStack, At(ops.targetStack, offset))]

Min(x, y) == IF x <= y THEN x ELSE y

\* The offsets of S in ascending order (the order an iota scan meets them).
RECURSIVE Ascending(_)
Ascending(S) == IF S = {} THEN <<>> ELSE <<First(S)>> \o Ascending(S \ {First(S)})

\* ---------------------------------------------------------- shuffleStep
\* Outcome of one shuffleStep: ret is "true" or "false" (the value returned)
\* or "throw" (an exception left the step, named by thrown); hooks are the
\* caller hooks invoked, in order; stack is currentStack afterwards; clause
\* names the clause that ended the step; offset is the offset that clause
\* chose (-1 if none); pushed is the offset given to pushOrDupTarget (-1 if
\* none); walked are the offsets bringUpTargetSlot took from its list and
\* gave to targetMultiplicity.
Returned(ret, effect, clause, offset, pushed) ==
    [ret |-> ret, thrown |-> "", hooks |-> effect.hooks, stack |-> effect.stack,
     clause |-> clause, offset |-> offset, pushed |-> pushed, walked |-> {}]
Thrown(ops, what, clause, offset) ==
    [ret |-> "throw", thrown |-> what, hooks |-> <<>>, stack |-> ops.currentStack,
     clause |-> clause, offset |-> offset, pushed |-> -1, walked |-> {}]
NoEffect(ops) == [hooks |-> <<>>, stack |-> ops.currentStack]

\* The stop test scanning one index too far.
allCompatible_offByOne(ops) == \A index \in 0..sourceSize(ops) : isCompatible(ops, index, index)

\* Line 118: all slots in the source are compatible with the target.
allCompatible(ops) == \A index \in 0..(sourceSize(ops) - 1) : isCompatible(ops, index, index)

\* The pop test with < -1 in place of < 0.
popCondition_belowMinusOne(ops) ==
    LET sourceTop == sourceSize(ops) - 1
    IN /\ sourceMultiplicity(ops, sourceTop) < -1
       /\ ~(targetSize(ops) >= sourceSize(ops) /\ targetIsArbitrary(ops, sourceTop))

\* The pop test without the multiplicity of the top.
popCondition_anyTop(ops) ==
    LET sourceTop == sourceSize(ops) - 1
    IN ~(targetSize(ops) >= sourceSize(ops) /\ targetIsArbitrary(ops, sourceTop))

\* The pop test with <= 0 in place of < 0.
popCondition_notPositive(ops) ==
    LET sourceTop == sourceSize(ops) - 1
    IN /\ sourceMultiplicity(ops, sourceTop) <= 0
       /\ ~(targetSize(ops) >= sourceSize(ops) /\ targetIsArbitrary(ops, sourceTop))

\* Lines 127-130: the stack top is no longer needed.
popCondition(ops) ==
    LET sourceTop == sourceSize(ops) - 1
    IN /\ sourceMultiplicity(ops, sourceTop) < 0
       /\ ~(targetSize(ops) >= sourceSize(ops) /\ targetIsArbitrary(ops, sourceTop))

\* The swap-down scan without the test that the lower slot is out of position.
swapDownOffsets_inPosition(ops) ==
    LET sourceTop == sourceSize(ops) - 1
    IN IF ~isCompatible(ops, sourceTop, sourceTop) \/ targetIsArbitrary(ops, sourceTop)
       THEN {offset \in 0..(Min(sourceSize(ops), targetSize(ops)) - 1) :
               /\ ~sourceIsSame(ops, offset, sourceTop)
               /\ isCompatible(ops, sourceTop, offset)}
       ELSE {}

\* The swap-down scan with the arguments of its last test exchanged.
swapDownOffsets_argsSwapped(ops) ==
    LET sourceTop == sourceSize(ops) - 1
    IN IF ~isCompatible(ops, sourceTop, sourceTop) \/ targetIsArbitrary(ops, sourceTop)
       THEN {offset \in 0..(Min(sourceSize(ops), targetSize(ops)) - 1) :
               /\ ~isCompatible(ops, offset, offset)
               /\ ~sourceIsSame(ops, offset, sourceTop)
               /\ isCompatible(ops, offset, sourceTop)}
       ELSE {}

\* Lines 139-146: the lower positions the top can be swapped down to.
swapDownOffsets(ops) ==
    LET sourceTop == sourceSize(ops) - 1
    IN IF ~isCompatible(ops, sourceTop, sourceTop) \/ targetIsArbitrary(ops, sourceTop)
       THEN {offset \in 0..(Min(sourceSize(ops), targetSize(ops)) - 1) :
               /\ ~isCompatible(ops, offset, offset)
               /\ ~sourceIsSame(ops, offset, sourceTop)
               /\ isCompatible(ops, sourceTop, offset)}
       ELSE {}

\* The inner loop of bringUpTargetSlot without the test that the next offset
\* is out of position.
nextOffsets_anyPosition(ops, offset, visited) ==
    {nextOffset \in 0..(Min(sourceSize(ops), targetSize(ops)) - 1) :
        /\ isCompatible(ops, nextOffset, offset)
        /\ nextOffset \notin visited}

\* The inner loop of bringUpTargetSlot with the arguments of its second test
\* exchanged.
nextOffsets_argsSwapped(ops, offset, visited) ==
    {nextOffset \in 0..(Min(sourceSize(ops), targetSize(ops)) - 1) :
        /\ ~isCompatible(ops, nextOffset, nextOffset)
        /\ isCompatible(ops, offset, nextOffset)
        /\ nextOffset \notin visited}

\* Lines 167-173: the offsets one visit of bringUpTargetSlot appends.
nextOffsets(ops, offset, visited) ==
    {nextOffset \in 0..(Min(sourceSize(ops), targetSize(ops)) - 1) :
        /\ ~isCompatible(ops, nextOffset, nextOffset)
        /\ isCompatible(ops, nextOffset, offset)
        /\ nextOffset \notin visited}

\* Lines 152-176: bringUpTargetSlot, as the loop over the list toVisit.
RECURSIVE bringUpLoop(_, _, _, _, _)
bringUpLoop(ops, toVisit, visited, clause, targetOffset) ==
    IF toVisit = <<>>
    THEN [Thrown(ops, "assert175", clause, targetOffset) EXCEPT !.walked = visited]
    ELSE LET offset == Head(toVisit)
             seen == visited \cup {offset}
         IN IF targetMultiplicityThrows(ops, offset)
            THEN [Thrown(ops, "out_of_range", clause, targetOffset) EXCEPT !.walked = seen]
            ELSE IF targetMultiplicity(ops, offset) > 0
            THEN [Returned("true", pushOrDupTarget(ops, offset), clause, targetOffset, offset)
                    EXCEPT !.walked = seen]
            ELSE bringUpLoop(ops, Tail(toVisit) \o Ascending(nextOffsets(ops, offset, seen)),
                             seen, clause, targetOffset)

\* bringUpTargetSlot that gives up, without a push, when the slot asked for
\* needs no further copy.
bringUpTargetSlot_noWalk(ops, targetOffset, clause) ==
    IF targetMultiplicityThrows(ops, targetOffset)
    THEN Thrown(ops, "out_of_range", clause, targetOffset)
    ELSE IF targetMultiplicity(ops, targetOffset) > 0
    THEN Returned("true", pushOrDupTarget(ops, targetOffset), clause, targetOffset, targetOffset)
    ELSE Returned("true", NoEffect(ops), clause, targetOffset, -1)

\* bringUpTargetSlot that pushes the slot of the offset it was asked for,
\* not of the offset its walk stopped at.
bringUpTargetSlot_pushesAsked(ops, targetOffset, clause) ==
    LET out == bringUpLoop(ops, <<targetOffset>>, {}, clause, targetOffset)
    IN IF out.ret = "true"
       THEN [Returned("true", pushOrDupTarget(ops, targetOffset), clause, targetOffset, out.pushed)
               EXCEPT !.walked = out.walked]
       ELSE out

bringUpTargetSlot(ops, targetOffset, clause) ==
    bringUpLoop(ops, <<targetOffset>>, {}, clause, targetOffset)

\* The fill-a-lower-hole scan with < -1 in place of < 0.
lowerHoleOffsets_belowMinusOne(ops) ==
    {offset \in 0..(sourceSize(ops) - 1) :
        /\ ~isCompatible(ops, offset, offset)
        /\ sourceMultiplicity(ops, offset) < -1
        /\ offset <= targetSize(ops)
        /\ ~targetIsArbitrary(ops, offset)}

\* Lines 180-186: the lower slots that should be removed.
lowerHoleOffsets(ops) ==
    {offset \in 0..(sourceSize(ops) - 1) :
        /\ ~isCompatible(ops, offset, offset)
        /\ sourceMultiplicity(ops, offset) < 0
        /\ offset <= targetSize(ops)
        /\ ~targetIsArbitrary(ops, offset)}

\* The swap-up scan without the test that the slot fits the top position.
swapUpOffsets_anyMisplaced(ops) ==
    LET sourceTop == sourceSize(ops) - 1
    IN IF ~isCompatible(ops, sourceTop, sourceTop)
       THEN {sourceOffset \in 0..(sourceSize(ops) - 1) :
               ~isCompatible(ops, sourceOffset, sourceOffset)}
       ELSE {}

\* Lines 198-203: the slots that want to be at the top.
swapUpOffsets(ops) ==
    LET sourceTop == sourceSize(ops) - 1
    IN IF ~isCompatible(ops, sourceTop, sourceTop)
       THEN {sourceOffset \in 0..(sourceSize(ops) - 1) :
               /\ ~isCompatible(ops, sourceOffset, sourceOffset)
               /\ isCompatible(ops, sourceOffset, sourceTop)}
       ELSE {}

\* Line 220: the first index at which the assertion loop throws, with what.
exactThrows(ops) ==
    {i \in 0..(sourceSize(ops) - 1) :
        \/ sourceMultiplicity(ops, i) # 0
        \/ /\ ~targetIsArbitrary(ops, i)
           /\ \/ targetMultiplicityThrows(ops, i)
              \/ targetMultiplicity(ops, i) # 0}
exactThrown(ops, i) ==
    IF /\ sourceMultiplicity(ops, i) = 0
       /\ ~targetIsArbitrary(ops, i)
       /\ targetMultiplicityThrows(ops, i)
    THEN "out_of_range"
    ELSE "assert220"

\* The first final scan without the out-of-position test.
finalCompatibleOffsets_anyPosition(ops) ==
    LET sourceTop == sourceSize(ops) - 1
    IN {offset \in 0..(sourceSize(ops) - 1) : isCompatible(ops, sourceTop, offset)}

\* Lines 224-225: lower slots out of position and compatible with the top.
finalCompatibleOffsets(ops) ==
    LET sourceTop == sourceSize(ops) - 1
    IN {offset \in 0..(sourceSize(ops) - 1) :
          ~isCompatible(ops, offset, offset) /\ isCompatible(ops, sourceTop, offset)}

\* The second final scan with the negation of sourceIsSame left out.
finalAnyOffsets_identical(ops) ==
    LET sourceTop == sourceSize(ops) - 1
    IN {offset \in 0..(sourceSize(ops) - 1) :
          ~isCompatible(ops, offset, offset) /\ sourceIsSame(ops, offset, sourceTop)}

\* Lines 231-232: any lower slot out of position, not identical to the top.
finalAnyOffsets(ops) ==
    LET sourceTop == sourceSize(ops) - 1
    IN {offset \in 0..(sourceSize(ops) - 1) :
          ~isCompatible(ops, offset, offset) /\ ~sourceIsSame(ops, offset, sourceTop)}

\* Lines 216-237: the stack has the correct size, every slot the correct
\* number of copies, and the top is in position.
finalClause(ops) ==
    LET size == sourceSize(ops)
        sourceTop == size - 1
    IN IF sourceSize(ops) # targetSize(ops)
       THEN Thrown(ops, "assert217", "final", -1)
       ELSE IF exactThrows(ops) # {}
       THEN Thrown(ops, exactThrown(ops, First(exactThrows(ops))), "final", First(exactThrows(ops)))
       ELSE IF ~isCompatible(ops, sourceTop, sourceTop)
       THEN Thrown(ops, "assert221", "final", -1)
       ELSE IF finalCompatibleOffsets(ops) # {}
       THEN LET offset == First(finalCompatibleOffsets(ops))
            IN Returned("true", swap(ops, size - offset - 1), "finalCompatible", offset, -1)
       ELSE IF finalAnyOffsets(ops) # {}
       THEN LET offset == First(finalAnyOffsets(ops))
            IN Returned("true", swap(ops, size - offset - 1), "finalAny", offset, -1)
       ELSE Thrown(ops, "assert237", "final", -1)

\* Lines 192-214: at this point all slots are kept.
keepClauses(ops) ==
    IF \E i \in 0..(sourceSize(ops) - 1) : ~(sourceMultiplicity(ops, i) >= 0)
    THEN Thrown(ops, "assert194", "keep", -1)
    ELSE IF ~(sourceSize(ops) <= targetSize(ops))
    THEN Thrown(ops, "assert195", "keep", -1)
    ELSE IF swapUpOffsets(ops) # {}
    THEN LET sourceOffset == First(swapUpOffsets(ops))
         IN Returned("true", swap(ops, sourceSize(ops) - sourceOffset - 1), "swapUp", sourceOffset, -1)
    ELSE IF sourceSize(ops) < targetSize(ops)
    THEN bringUpTargetSlot(ops, sourceSize(ops), "grow")
    ELSE finalClause(ops)

\* Lines 112-238: shuffleStep on a fresh ShuffleOperations.
shuffleStep(currentStack, targetStack) ==
    LET ops == ShuffleOperations(currentStack, targetStack)
    IN IF allCompatible(ops)
       THEN Returned("false", NoEffect(ops), "stop", -1, -1)
       ELSE IF sourceMultiplicityThrows(ops, sourceSize(ops) - 1)
       THEN Thrown(ops, "out_of_range", "pop", sourceSize(ops) - 1)
       ELSE IF popCondition(ops)
       THEN Returned("true", pop(ops), "pop", sourceSize(ops) - 1, -1)
       ELSE IF ~(targetSize(ops) > 0)
       THEN Thrown(ops, "assert136", "pop", -1)
       ELSE IF swapDownOffsets(ops) # {}
       THEN LET offset == First(swapDownOffsets(ops))
            IN Returned("true", swap(ops, sourceSize(ops) - offset - 1), "swapDown", offset, -1)
       ELSE IF lowerHoleOffsets(ops) # {}
       THEN bringUpTargetSlot(ops, First(lowerHoleOffsets(ops)), "lowerHole")
       ELSE keepClauses(ops)

\* ------------------------------------------------------ createStackLayout
VARIABLES
    currentStack,    \* _currentStack, modified in place
    targetStack,     \* _targetStack
    entry,           \* _currentStack on entry to the call under way
    call,            \* 1 during the first call, 2 during a call repeated on its result
    pc,              \* "shuffle", "tail", "done", or "failed" once an exception left the call
    thrown,          \* the exception that left the call, "" if none
    iterationCount,  \* Shuffler::shuffle's counter
    limit,           \* the iteration limit of Shuffler::shuffle's loop condition
    emitted,         \* the hooks invoked during this call, in order
    emittedBefore,   \* the hooks invoked during the call before this one, in order
    layouts,         \* the layouts shuffleStep was invoked on during this call, in order
    last             \* the latest shuffleStep: the layout it ran on and its outcome

vars ==
    <<currentStack, targetStack, entry, call, pc, thrown, iterationCount, limit, emitted,
      emittedBefore, layouts, last>>

NoStep ==
    [before |-> <<>>, ret |-> "none", thrown |-> "", hooks |-> <<>>, stack |-> <<>>,
     clause |-> "none", offset |-> -1, pushed |-> -1, walked |-> {}]

StepRecord(before, out) ==
    [before |-> before, ret |-> out.ret, thrown |-> out.thrown, hooks |-> out.hooks,
     stack |-> out.stack, clause |-> out.clause, offset |-> out.offset, pushed |-> out.pushed,
     walked |-> out.walked]

\* The state on entry to createStackLayout, before the first evaluation of
\* the loop condition.
Entered ==
    /\ currentStack \in StacksUpTo(MaxLen)
    /\ targetStack \in StacksUpTo(MaxLen)
    /\ FirstOccurrencesInOrder(currentStack \o targetStack)
    /\ entry = currentStack
    /\ call = 1
    /\ pc = "shuffle"
    /\ thrown = ""
    /\ iterationCount = 0
    /\ emitted = <<>>
    /\ emittedBefore = <<>>
    /\ layouts = <<>>
    /\ last = NoStep

Init == Entered /\ limit = IterationLimit

\* The same program with the literal of line 105 taken as a parameter.
CapInit == Entered /\ limit \in 1..MaxCap

\* Lines 99-108: one evaluation of the loop condition of Shuffler::shuffle
\* (the limit test, then shuffleStep), the loop body if it holds, and the
\* yulAssert after the loop if it does not.
shuffle ==
    /\ pc = "shuffle"
    /\ IF ~(iterationCount < limit)
       THEN \* needsMoreShuffling still holds the true of the last step
            /\ pc' = "failed"
            /\ thrown' = "assert107"
            /\ UNCHANGED <<currentStack, iterationCount, emitted, layouts, last>>
       ELSE LET out == shuffleStep(currentStack, targetStack)
            IN /\ last' = StepRecord(currentStack, out)
               /\ layouts' = Append(layouts, currentStack)
               /\ currentStack' = out.stack
               /\ emitted' = emitted \o out.hooks
               /\ iterationCount' = IF out.ret = "true" THEN iterationCount + 1 ELSE iterationCount
               /\ pc' = CASE out.ret = "true" -> "shuffle"
                          [] out.ret = "false" -> "tail"
                          [] OTHER -> "failed"
               /\ thrown' = out.thrown
    /\ UNCHANGED <<targetStack, entry, call, limit, emittedBefore>>

\* Lines 315-319: one iteration of the loop that pushes the rest of the target.
tail ==
    /\ pc = "tail"
    /\ Len(currentStack) < Len(targetStack)
    /\ emitted' = Append(emitted, PushOrDupPrim(At(targetStack, Len(currentStack))))
    /\ currentStack' = Append(currentStack, At(targetStack, Len(currentStack)))
    /\ UNCHANGED <<targetStack, entry, call, pc, thrown, iterationCount, limit, emittedBefore,
                   layouts, last>>

\* Lines 322-326: the positions the final loop reaches before it throws
\* (all of them if it does not): junk targets overwrite the current slot.
mismatches(current, target) ==
    {i \in 1..Min(Len(current), Len(target)) : target[i] # Junk /\ current[i] # target[i]}
\* The final loop without the junk overwrite.
normalized_noOverwrite(current, target) == current

\* The final loop overwriting every position it reaches.
normalized_allJunk(current, target) ==
    LET reach == IF mismatches(current, target) = {}
                 THEN Min(Len(current), Len(target))
                 ELSE First(mismatches(current, target)) - 1
    IN [i \in 1..Len(current) |-> IF i <= reach THEN Junk ELSE current[i]]

normalized(current, target) ==
    LET reach == IF mismatches(current, target) = {}
                 THEN Min(Len(current), Len(target))
                 ELSE First(mismatches(current, target)) - 1
    IN [i \in 1..Len(current) |-> IF i <= reach /\ target[i] = Junk THEN Junk ELSE current[i]]

\* Lines 321-326: the size assertion and the final loop, after the push loop.
normalize ==
    /\ pc = "tail"
    /\ ~(Len(currentStack) < Len(targetStack))
    /\ IF Len(currentStack) # Len(targetStack)
       THEN /\ pc' = "failed"
            /\ thrown' = "assert321"
            /\ UNCHANGED currentStack
       ELSE /\ currentStack' = normalized(currentStack, targetStack)
            /\ IF mismatches(currentStack, targetStack) = {}
               THEN pc' = "done" /\ UNCHANGED thrown
               ELSE pc' = "failed" /\ thrown' = "assert326"
    /\ UNCHANGED <<targetStack, entry, call, iterationCount, limit, emitted, emittedBefore,
                   layouts, last>>

\* The caller calls createStackLayout a second time on the stack the first
\* call left, with the same target.
callAgain ==
    /\ pc = "done"
    /\ call = 1
    /\ call' = 2
    /\ entry' = currentStack
    /\ pc' = "shuffle"
    /\ iterationCount' = 0
    /\ emittedBefore' = emitted
    /\ emitted' = <<>>
    /\ layouts' = <<>>
    /\ last' = NoStep
    /\ UNCHANGED <<currentStack, targetStack, thrown, limit>>

Next == shuffle \/ tail \/ normalize \/ callAgain

Spec == Init /\ [][Next]_vars

CapSpec == CapInit /\ [][Next]_vars


\* ================================================================ claims
\* The set of slots of a stack.
Slots(stack) == {stack[i] : i \in 1..Len(stack)}

\* The ShuffleOperations of the present state.
here == ShuffleOperations(currentStack, targetStack)

\* The primitives by their meaning on a stack: swap(d) exchanges the top with
\* the slot d below it, pop drops the top, pushOrDup(s) appends s.  A
\* primitive that cannot be applied leaves the marker Stuck.
Stuck == <<"stuck">>
ApplyPrim(stack, prim) ==
    IF stack = Stuck THEN Stuck
    ELSE IF prim.op = "pop"
    THEN IF Len(stack) = 0 THEN Stuck ELSE SubSeq(stack, 1, Len(stack) - 1)
    ELSE IF prim.op = "pushOrDup"
    THEN Append(stack, prim.slot)
    ELSE IF prim.depth < 1 \/ prim.depth > Len(stack) - 1 THEN Stuck
    ELSE [k \in 1..Len(stack) |->
            IF k = Len(stack) THEN stack[Len(stack) - prim.depth]
            ELSE IF k = Len(stack) - prim.depth THEN stack[Len(stack)]
            ELSE stack[k]]
RECURSIVE Replay(_, _)
Replay(stack, prims) ==
    IF prims = <<>> THEN stack ELSE Replay(ApplyPrim(stack, Head(prims)), Tail(prims))

\* prefix is an initial part of whole.
IsPrefix(prefix, whole) ==
    Len(prefix) <= Len(whole) /\ SubSeq(whole, 1, Len(prefix)) = prefix

\* C1: whenever createStackLayout returns normally, the current stack has the
\* length of the target and equals it slot for slot, junk target positions
\* holding Junk.
C1_ResultEqualsTarget ==
    pc = "done" =>
        /\ Len(currentStack) = Len(targetStack)
        /\ \A i \in 1..Len(targetStack) :
              IF targetStack[i] = Junk
              THEN currentStack[i] = Junk
              ELSE currentStack[i] = targetStack[i]

\* A first call that had to emit primitives has returned on a target that
\* mixes junk and other slots and differs in length from the stack on entry.
C1_Witness ==
    /\ pc = "done"
    /\ call = 1
    /\ Len(emitted) >= 2
    /\ Len(entry) # Len(targetStack)
    /\ Junk \in Slots(targetStack)
    /\ Slots(targetStack) # {Junk}
    /\ Junk \notin Slots(entry)

\* No layout is handed to shuffleStep twice within one call.
NoLayoutTwice == \A i, j \in 1..Len(layouts) : i # j => layouts[i] # layouts[j]

\* C2: for every pair of stacks the shuffle loop stays below the iteration
\* limit, never fails (with the non-termination assertion or otherwise),
\* visits no layout twice within a call, and is left only by a step that
\* found every source index compatible with the same target index.  Each
\* evaluation of the loop condition raises iterationCount or leaves the
\* loop, so the bound on iterationCount is the bound on the steps taken.
C2_ShuffleTerminates ==
    /\ iterationCount < IterationLimit
    /\ Len(layouts) <= iterationCount + 1
    /\ thrown = ""
    /\ NoLayoutTwice
    /\ pc \in {"tail", "done"} =>
          /\ last.ret = "false"
          /\ allCompatible(ShuffleOperations(last.before, targetStack))

\* A shuffle loop that needed several steps has reached the stop predicate.
C2_Witness ==
    /\ pc = "tail"
    /\ last.ret = "false"
    /\ iterationCount >= 4
    /\ Len(layouts) = iterationCount + 1
    /\ allCompatible(here)

\* C3: if the current stack equals the target slot for slot on entry, no hook
\* is invoked and the current stack is unchanged, up to and on return.
C3_Identity ==
    entry = targetStack =>
        /\ emitted = <<>>
        /\ currentStack = entry
        /\ pc # "failed"

\* A first call on equal stacks that hold junk and other slots has returned.
C3_Witness ==
    /\ call = 1
    /\ pc = "done"
    /\ entry = targetStack
    /\ Len(entry) >= 2
    /\ Junk \in Slots(entry)
    /\ Slots(entry) # {Junk}

\* C4: a second call on the stack the first call returned, with the same
\* target, emits no primitive and leaves that stack unchanged.
C4_Idempotent ==
    call = 2 =>
        /\ emitted = <<>>
        /\ currentStack = entry
        /\ pc # "failed"

\* The second call has returned after a first call that emitted primitives
\* and normalized a junk position.
C4_Witness ==
    /\ call = 2
    /\ pc = "done"
    /\ emittedBefore # <<>>
    /\ Junk \in Slots(targetStack)
    /\ last.ret = "false"

\* C5: a shuffleStep that returns true has invoked exactly one hook, which is
\* a swap, a pop or a pushOrDup; one that returns false has invoked none; so
\* the hooks invoked in the loop are as many as the steps that returned true.
C5_OnePrimitivePerStep ==
    /\ last.ret = "true" =>
          /\ Len(last.hooks) = 1
          /\ last.hooks[1].op \in {"swap", "pop", "pushOrDup"}
    /\ last.ret = "false" => last.hooks = <<>>
    /\ pc = "shuffle" => Len(emitted) = iterationCount

\* The loop has ended after steps of all three kinds.
C5_Witness ==
    /\ pc = "tail"
    /\ last.ret = "false"
    /\ {emitted[i].op : i \in 1..Len(emitted)} = {"swap", "pop", "pushOrDup"}
    /\ Len(emitted) = iterationCount

\* C6 as stated: replaying the emitted primitives on a copy of the stack on
\* entry yields the stack createStackLayout leaves on return.
C6_ReplayOriginal ==
    pc = "done" => Replay(entry, emitted) = currentStack

\* C6: while the call runs, replaying the primitives emitted so far on a copy
\* of the stack on entry yields the current stack; on return the replayed
\* stack has the length of the current stack and differs from it only at
\* junk target positions, where the current stack holds Junk.
C6_ReplayUpToJunk ==
    /\ pc \in {"shuffle", "tail"} => Replay(entry, emitted) = currentStack
    /\ pc = "done" =>
          LET replayed == Replay(entry, emitted)
          IN /\ Len(replayed) = Len(currentStack)
             /\ \A i \in 1..Len(currentStack) :
                   \/ replayed[i] = currentStack[i]
                   \/ targetStack[i] = Junk /\ currentStack[i] = Junk

\* A call that emitted all three kinds of primitive has returned a stack the
\* replay differs from at a junk position.
C6_Witness ==
    /\ pc = "done"
    /\ call = 1
    /\ {emitted[i].op : i \in 1..Len(emitted)} = {"swap", "pop", "pushOrDup"}
    /\ Replay(entry, emitted) # currentStack

\* C7: every swap a step emits has a depth of at least 1 and at most the size
\* of the current stack minus 1 at that moment, and no pop is emitted on an
\* empty stack.
C7_DepthInRange ==
    \A i \in 1..Len(last.hooks) :
        /\ last.hooks[i].op = "swap" =>
              1 <= last.hooks[i].depth /\ last.hooks[i].depth <= Len(last.before) - 1
        /\ last.hooks[i].op = "pop" => Len(last.before) >= 1

\* The final clause has swapped the top with the bottom of a stack of three
\* or more slots.
C7_Witness ==
    /\ last.ret = "true"
    /\ last.clause \in {"finalCompatible", "finalAny"}
    /\ last.hooks[1].op = "swap"
    /\ last.hooks[1].depth = Len(last.before) - 1
    /\ Len(last.before) >= 3

\* The stacks of scenario S3.
S3Entry == <<"a", "b", "c">>
S3Target == <<"c">>
S3 == call = 1 /\ entry = S3Entry /\ targetStack = S3Target

\* C8 as stated: on [a, b, c] with target [c] the call emits pop, pop,
\* swap(1) and ends with [c].
C8_S3Original ==
    S3 /\ pc = "done" =>
        /\ emitted = <<PopPrim, PopPrim, SwapPrim(1)>>
        /\ currentStack = <<"c">>

\* C8: on [a, b, c] with target [c] the call emits swap(2), pop, pop, in that
\* order and nothing else, does not fail, and ends with [c].
C8_S3 ==
    S3 =>
        /\ IsPrefix(emitted, <<SwapPrim(2), PopPrim, PopPrim>>)
        /\ pc # "failed"
        /\ pc = "done" =>
              /\ emitted = <<SwapPrim(2), PopPrim, PopPrim>>
              /\ currentStack = <<"c">>

\* The call of scenario S3 has returned.
C8_Witness == S3 /\ pc = "done" /\ Len(emitted) = 3

\* The stack on entry is no longer than the target and each of its slots is
\* compatible with the target slot at its index.
CompatiblePrefix ==
    /\ Len(entry) <= Len(targetStack)
    /\ \A i \in 1..Len(entry) : targetStack[i] = Junk \/ entry[i] = targetStack[i]

\* C9: if on entry the current stack is no longer than the target and every
\* source index is compatible with the same target index, the Shuffler emits
\* nothing, and the call emits, in order, one pushOrDup for each target slot
\* from index |entry| on, and no swap and no pop.
C9_OnlyTailPushes ==
    CompatiblePrefix =>
        /\ iterationCount = 0
        /\ pc # "failed"
        /\ pc = "shuffle" => emitted = <<>>
        /\ IsPrefix(emitted, [k \in 1..(Len(targetStack) - Len(entry)) |->
                                PushOrDupPrim(targetStack[Len(entry) + k])])
        /\ pc = "done" => Len(emitted) = Len(targetStack) - Len(entry)

\* A first call has returned after two or more tail pushes onto a stack
\* whose slots sat under junk and equal target slots.
C9_Witness ==
    /\ call = 1
    /\ pc = "done"
    /\ CompatiblePrefix
    /\ Len(entry) >= 1
    /\ Len(targetStack) - Len(entry) >= 2
    /\ entry # SubSeq(targetStack, 1, Len(entry))
    /\ Len(emitted) = Len(targetStack) - Len(entry)

\* The measure of C10, on a fresh multiplicity table.
RECURSIVE SumOver(_, _)
SumOver(S, f) ==
    IF S = {} THEN 0
    ELSE LET x == CHOOSE y \in S : TRUE IN f[x] + SumOver(S \ {x}, f)
SurplusCount(current, target) ==
    LET m == Multiplicity(current, target)
    IN SumOver(DOMAIN m, [k \in DOMAIN m |-> IF m[k] < 0 THEN -m[k] ELSE 0])
OutOfPlaceCount(current, target) ==
    Cardinality({i \in 0..(Len(current) - 1) :
                    ~isCompatible(ShuffleOperations(current, target), i, i)})
SizeGap(current, target) ==
    IF Len(target) >= Len(current) THEN Len(target) - Len(current) ELSE Len(current) - Len(target)
Measure(current, target) ==
    <<SurplusCount(current, target), OutOfPlaceCount(current, target), SizeGap(current, target)>>
LexLess(x, y) ==
    \/ x[1] < y[1]
    \/ x[1] = y[1] /\ x[2] < y[2]
    \/ x[1] = y[1] /\ x[2] = y[2] /\ x[3] < y[3]
LastStepDecreases == LexLess(Measure(last.stack, targetStack), Measure(last.before, targetStack))

\* C10 as stated: every step that emits a primitive strictly decreases the
\* measure (surplus count, out-of-place count, size gap).
C10_MeasureOriginal ==
    last.ret = "true" => LastStepDecreases

\* C10: every step that emits a pop (drop surplus top) or the swap of the
\* swap-top-into-place clause strictly decreases the measure (surplus count,
\* out-of-place count, size gap).
C10_MeasurePopAndSwapUp ==
    last.ret = "true" /\ last.clause \in {"pop", "swapUp"} => LastStepDecreases

\* The swap-top-into-place clause has emitted a swap, after a pop earlier in
\* the same call.
C10_Witness ==
    /\ last.ret = "true"
    /\ last.clause = "swapUp"
    /\ \E i \in 1..Len(emitted) : emitted[i].op = "pop"

\* The ShuffleOperations the latest shuffleStep was built on.
lastOps == ShuffleOperations(last.before, targetStack)

\* The latest shuffleStep ran bringUpTargetSlot, and it pushed.
BroughtUp == last.clause \in {"lowerHole", "grow"} /\ last.ret = "true"

\* The slot on top of the stack the latest shuffleStep left.
NewTop == last.stack[Len(last.stack)]

\* The new top is compatible with the target slot bringUpTargetSlot was asked for.
NewTopFitsAsked ==
    /\ last.offset < Len(targetStack)
    /\ \/ At(targetStack, last.offset) = Junk
       \/ NewTop = At(targetStack, last.offset)

\* C11 as stated: the slot a run of bringUpTargetSlot(targetOffset) pushes is
\* compatible with target[targetOffset].
C11_PushedFitsOriginal ==
    BroughtUp => NewTopFitsAsked

\* C11: the slot a run of bringUpTargetSlot(targetOffset) pushes as the new
\* top is target[o] for the offset o at which its walk stopped, an offset with
\* positive target multiplicity; it is compatible with target[targetOffset]
\* exactly when target[targetOffset] is Junk or targetMultiplicity(targetOffset)
\* is positive, that is when the walk stops at its first offset.
C11_PushedIsWalkEnd ==
    BroughtUp =>
        /\ last.pushed \in last.walked
        /\ last.pushed < Len(targetStack)
        /\ Len(last.stack) = Len(last.before) + 1
        /\ NewTop = At(targetStack, last.pushed)
        /\ last.hooks = <<PushOrDupPrim(At(targetStack, last.pushed))>>
        /\ targetMultiplicity(lastOps, last.pushed) > 0
        /\ last.offset < Len(targetStack)
        /\ NewTopFitsAsked <=>
              \/ At(targetStack, last.offset) = Junk
              \/ targetMultiplicity(lastOps, last.offset) > 0

\* The grow clause has run bringUpTargetSlot after an earlier push of the
\* same call; its walk went past its first offset and pushed a slot that
\* does not fit the offset asked for.
C11_Witness ==
    /\ BroughtUp
    /\ last.pushed # last.offset
    /\ ~NewTopFitsAsked
    /\ last.clause = "grow"
    /\ \E i \in 1..Len(emitted) - 1 : emitted[i].op = "pushOrDup"

\* The latest shuffleStep ran bringUpTargetSlot.
RanBringUp == last.clause \in {"lowerHole", "grow"}

\* C12: every run of bringUpTargetSlot finds, in its worklist, an offset with
\* positive target multiplicity, after offsets without, and emits exactly one
\* pushOrDupTarget, for that offset; the worklist is never exhausted, so the
\* yulAssert(false) after the loop is not reached.
C12_WalkFindsPush ==
    /\ thrown # "assert175"
    /\ RanBringUp =>
          /\ last.ret = "true"
          /\ last.offset \in last.walked
          /\ last.pushed \in last.walked
          /\ \A o \in last.walked :
                /\ ~targetMultiplicityThrows(lastOps, o)
                /\ (targetMultiplicity(lastOps, o) > 0) <=> (o = last.pushed)
          /\ Len(last.hooks) = 1
          /\ last.hooks[1] = PushOrDupPrim(At(targetStack, last.pushed))

\* The fill-a-lower-hole clause has run bringUpTargetSlot and its walk took
\* two or more offsets from the worklist before it pushed.
C12_Witness ==
    /\ RanBringUp
    /\ last.clause = "lowerHole"
    /\ last.ret = "true"
    /\ Cardinality(last.walked) >= 2

\* The latest shuffleStep found the stop test false and none of the clauses
\* drop surplus top, swap top down, fill a lower hole fired.
ReachedKeep == last.clause \in {"keep", "swapUp", "grow", "final", "finalCompatible", "finalAny"}

\* C13: whenever a step gets past the clauses drop surplus top, swap top down
\* and fill a lower hole, every source index has a multiplicity of at least 0
\* and the source is no longer than the target; the assertions there never
\* fail.
C13_KeepAssertionsHold ==
    /\ thrown \notin {"assert194", "assert195"}
    /\ ReachedKeep =>
          /\ \A i \in 0..(Len(last.before) - 1) : sourceMultiplicity(lastOps, i) >= 0
          /\ Len(last.before) <= Len(targetStack)

\* A step got past the three clauses after a pop and a push of the same
\* call, on a stack shorter than the target.
C13_Witness ==
    /\ ReachedKeep
    /\ last.ret = "true"
    /\ Len(last.before) < Len(targetStack)
    /\ \E i \in 1..Len(emitted) : emitted[i].op = "pop"
    /\ \E i \in 1..(Len(emitted) - 1) : emitted[i].op = "pushOrDup"

\* The latest shuffleStep reached the final clause: the stop test was false
\* and no earlier clause fired.
ReachedFinal == last.clause \in {"final", "finalCompatible", "finalAny"}

\* C14: whenever a step reaches the final clause, source and target have the
\* same size, the top is compatible with its own target position, every
\* source slot and every target slot that is not Junk has multiplicity 0, and
\* one of the two final scans finds an offset, so that a swap is emitted and
\* none of the assertions of the clause fails.
C14_FinalClauseSwaps ==
    /\ thrown \notin {"assert217", "assert220", "assert221", "assert237"}
    /\ ReachedFinal =>
          /\ Len(last.before) = Len(targetStack)
          /\ isCompatible(lastOps, Len(last.before) - 1, Len(last.before) - 1)
          /\ \A i \in 0..(Len(last.before) - 1) :
                /\ sourceMultiplicity(lastOps, i) = 0
                /\ At(targetStack, i) # Junk => targetMultiplicity(lastOps, i) = 0
          /\ finalCompatibleOffsets(lastOps) \cup finalAnyOffsets(lastOps) # {}
          /\ last.ret = "true"
          /\ Len(last.hooks) = 1
          /\ last.hooks[1].op = "swap"
          /\ last.offset < Len(last.before) - 1
          /\ ~isCompatible(lastOps, last.offset, last.offset)

\* The second final scan has emitted a swap, the first having found no
\* offset, on a target that holds Junk.
C14_Witness ==
    /\ last.clause = "finalAny"
    /\ last.ret = "true"
    /\ finalCompatibleOffsets(lastOps) = {}
    /\ Junk \in Slots(targetStack)


\* C15: with the iteration limit as a parameter, the call fails with the
\* non-termination assertion only on a layout that does not satisfy the stop
\* predicate; a run whose limit-th primitive reached the stop predicate
\* returns normally.
C15_CapOriginal ==
    thrown = "assert107" => ~allCompatible(here)


\* The latest step emitted a swap.
Swapped == last.ret = "true" /\ Len(last.hooks) = 1 /\ last.hooks[1].op = "swap"

\* C16: every step that returns true leaves a layout different from the one
\* it ran on, and every swap (of the swap-down, swap-up and the two final
\* clauses) exchanges the top with a lower slot that is not identical to it.
C16_StepChangesLayout ==
    /\ last.ret = "true" =>
          /\ last.stack # last.before
          /\ Len(last.hooks) = 1
          /\ Replay(last.before, last.hooks) = last.stack
    /\ Swapped =>
          /\ last.clause \in {"swapDown", "swapUp", "finalCompatible", "finalAny"}
          /\ last.hooks[1].depth \in 1..(Len(last.before) - 1)
          /\ last.before[Len(last.before) - last.hooks[1].depth] # last.before[Len(last.before)]

\* The first final scan, which does not test sourceIsSame, has swapped on a
\* layout that holds the slot of its top twice.
C16_Witness ==
    /\ Swapped
    /\ last.clause = "finalCompatible"
    /\ \E i \in 1..(Len(last.before) - 1) : last.before[i] = last.before[Len(last.before)]


\* The latest step emitted a pop, or a pushOrDup.
Popped == last.ret = "true" /\ Len(last.hooks) = 1 /\ last.hooks[1].op = "pop"
ShufflerPushed == last.ret = "true" /\ Len(last.hooks) = 1 /\ last.hooks[1].op = "pushOrDup"
OldTop == last.before[Len(last.before)]

\* C17: in the table built at the start of the step, every pop removes a top
\* slot of negative multiplicity (the layout holds more copies of it than the
\* target names), and every pushOrDup of the shuffle loop pushes a slot of
\* the target whose multiplicity is positive.
C17_MultiplicityDiscipline ==
    /\ Popped =>
          /\ last.clause = "pop"
          /\ ~sourceMultiplicityThrows(lastOps, Len(last.before) - 1)
          /\ sourceMultiplicity(lastOps, Len(last.before) - 1) < 0
          /\ lastOps.multiplicity[OldTop] < 0
          /\ OldTop # Junk => Occurrences(last.before, OldTop) > Occurrences(targetStack, OldTop)
          /\ last.stack = SubSeq(last.before, 1, Len(last.before) - 1)
    /\ ShufflerPushed =>
          /\ last.clause \in {"lowerHole", "grow"}
          /\ last.pushed \in 0..(Len(targetStack) - 1)
          /\ last.hooks[1].slot = At(targetStack, last.pushed)
          /\ ~targetMultiplicityThrows(lastOps, last.pushed)
          /\ targetMultiplicity(lastOps, last.pushed) > 0
          /\ lastOps.multiplicity[last.hooks[1].slot] > 0
          /\ last.stack = Append(last.before, last.hooks[1].slot)

\* The shuffle loop has pushed a slot the layout already held, after it had
\* popped a slot.
C17_Witness ==
    /\ ShufflerPushed
    /\ NewTop \in Slots(last.before)
    /\ \E i \in 1..Len(emitted) : emitted[i].op = "pop"


\* offset is an index of the target whose slot is a key of the table of the
\* latest step.
ValidTargetOffset(offset) ==
    /\ offset \in 0..(Len(targetStack) - 1)
    /\ At(targetStack, offset) \in DOMAIN lastOps.multiplicity

\* C18: whenever the fill-a-lower-hole clause fires its offset is strictly
\* below targetSize, and every offset bringUpTargetSlot hands to
\* targetMultiplicity or pushOrDupTarget (the one either caller passes, the
\* ones of its worklist, the one it pushes) is an index of the target whose
\* slot is a key of the multiplicity table; no access is out of range.
C18_OffsetsInRange ==
    /\ thrown # "out_of_range"
    /\ last.thrown # "out_of_range"
    /\ last.clause = "lowerHole" =>
          /\ last.offset < Len(targetStack)
          /\ last.offset < Len(last.before) - 1
          /\ Len(last.before) <= Len(targetStack)
    /\ RanBringUp =>
          /\ ValidTargetOffset(last.offset)
          /\ ValidTargetOffset(last.pushed)
          /\ \A offset \in last.walked : ValidTargetOffset(offset)

\* The fill-a-lower-hole clause has fired at the largest offset it can take
\* when the layout is as long as the target, and its walk went on to the
\* worklist.
C18_Witness ==
    /\ last.clause = "lowerHole"
    /\ last.ret = "true"
    /\ Len(last.before) = Len(targetStack)
    /\ last.offset = Len(targetStack) - 2
    /\ last.pushed # last.offset


\* C19: on an empty target the call emits one pop for every slot of the
\* stack on entry and nothing else, ends with the empty stack, and never
\* reaches the assertion of line 136.
C19_EmptyTargetPopsAll ==
    targetStack = <<>> =>
        /\ thrown = ""
        /\ last.thrown # "assert136"
        /\ pc # "failed"
        /\ \A i \in 1..Len(emitted) : emitted[i] = PopPrim
        /\ Len(emitted) = Len(entry) - Len(currentStack)
        /\ currentStack = SubSeq(entry, 1, Len(currentStack))
        /\ last.ret = "true" => last.clause = "pop"
        /\ pc \in {"tail", "done"} =>
              /\ currentStack = <<>>
              /\ Len(emitted) = Len(entry)
              /\ iterationCount = Len(entry)

\* A call on an empty target has returned after it popped a stack of the
\* largest length, whose slots include a repeated slot and junk.
C19_Witness ==
    /\ targetStack = <<>>
    /\ pc = "done"
    /\ call = 1
    /\ Len(entry) = MaxLen
    /\ Junk \in Slots(entry)
    /\ Cardinality(Slots(entry)) < Len(entry)
    /\ Len(emitted) = MaxLen

====
